---- MODULE Spec2Model ----
(***************************************************************************)
(* Model of Scripts/generate-icon.py: the icon set generator.               *)
(*                                                                         *)
(* The script creates Resources/AppIcon.iconset and, for each size of a    *)
(* fixed list, renders an SVG document and writes it under one or two file *)
(* names.  The state is the target directory (present or not, and the      *)
(* content of each file in it), the position of the script, its loop       *)
(* variables and what it has printed.  A file's content is the sequence of *)
(* its text lines.                                                         *)
(*                                                                         *)
(* Floats.  The script's coordinates are Python floats.  Every size of the *)
(* list is a power of two, so size * 0.2 is the double nearest to size/5   *)
(* (scaling a double by a power of two is exact) and str() of it is the    *)
(* shortest decimal of size/5; size * 0.25, size * 0.75 and size / 2 are   *)
(* exact.  A float is therefore held as its exact number of hundredths,    *)
(* and FloatStr renders it the way str(float) does ("16.0", "6.4").        *)
(***************************************************************************)
EXTENDS Integers, Sequences, FiniteSets, TLC

VARIABLES
    pc,           \* position of the script
    run,          \* number of the current invocation of the script
    idx,          \* position of the for loop's iterator in sizes
    size,         \* loop variable
    polygon,      \* the three vertices handed to svg_template.format
    svg_content,  \* loop variable: the rendered document
    dirExists,    \* whether iconset_dir exists
    files,        \* iconset_dir: file name -> content (sequence of lines)
    attempted,    \* paths this run has called open() on
    written,      \* writes this run has completed: [path, size]
    printed,      \* lines this run has printed
    startDir,     \* history: dirExists when this run started
    startFiles,   \* history: files when this run started
    prevDone      \* history: the previous run completed successfully

vars == <<pc, run, idx, size, polygon, svg_content, dirExists, files,
          attempted, written, printed, startDir, startFiles, prevDone>>

\* Number of invocations of the script that are followed.
MaxRuns == 2

(***************************************************************************)
(* Text                                                                    *)
(***************************************************************************)
Range(f) == {f[x] : x \in DOMAIN f}

Digit(d) == <<"0", "1", "2", "3", "4", "5", "6", "7", "8", "9">>[d + 1]

RECURSIVE IntStr(_)
\* str() of a non-negative int, as str.format and f-strings render it
IntStr(n) == IF n < 10 THEN Digit(n) ELSE IntStr(n \div 10) \o Digit(n % 10)

\* FloatStr with whole numbers rendered as ints are rendered ("16" for 16.0)
FloatStr_trim(v) ==
    IF v % 100 = 0 THEN IntStr(v \div 100)
    ELSE IntStr(v \div 100) \o "." \o
         (IF v % 10 = 0 THEN Digit((v % 100) \div 10)
                        ELSE Digit((v % 100) \div 10) \o Digit(v % 10))

\* str() of a non-negative float held as hundredths: always a decimal
\* point, at least one fractional digit, no trailing zero after it
FloatStr(v) ==
    LET whole == v \div 100
        frac  == v % 100
    IN  IntStr(whole) \o "." \o
        (IF frac % 10 = 0 THEN Digit(frac \div 10)
                          ELSE Digit(frac \div 10) \o Digit(frac % 10))

\* svg_template.format(size=, x1=, y1=, x2=, y2=, x3=, y3=): the four lines
svg_template_format(sz, x1, y1, x2, y2, x3, y3) ==
    << "<?xml version=\"1.0\" encoding=\"UTF-8\"?>",
       "<svg width=\"" \o IntStr(sz) \o "\" height=\"" \o IntStr(sz)
          \o "\" viewBox=\"0 0 " \o IntStr(sz) \o " " \o IntStr(sz)
          \o "\" xmlns=\"http://www.w3.org/2000/svg\">",
       "  <polygon points=\"" \o FloatStr(x1) \o "," \o FloatStr(y1) \o " "
          \o FloatStr(x2) \o "," \o FloatStr(y2) \o " "
          \o FloatStr(x3) \o "," \o FloatStr(y3) \o "\" fill=\"black\"/>",
       "</svg>" >>

(***************************************************************************)
(* Configuration and geometry                                              *)
(***************************************************************************)
\* sizes with 32 and 64 exchanged
sizes_unordered == <<16, 64, 32, 128, 256, 512, 1024>>

sizes == <<16, 32, 64, 128, 256, 512, 1024>>

\* size / 2, size * 0.25, ... in hundredths
center_x(sz) == (sz * 100) \div 2
top_y(sz)    == sz * 25
bottom_y(sz) == sz * 75
left_x(sz)   == sz * 20
right_x(sz)  == sz * 80

\* FormatArgs with the two top vertices exchanged
FormatArgs_swapped(sz) ==
    << <<(sz * 100) \div 2, sz * 75>>,
       <<sz * 80, sz * 25>>,
       <<sz * 20, sz * 25>> >>

\* x1,y1 bottom point; x2,y2 top left; x3,y3 top right
FormatArgs(sz) ==
    << <<center_x(sz), bottom_y(sz)>>,
       <<left_x(sz), top_y(sz)>>,
       <<right_x(sz), top_y(sz)>> >>

Render(sz, p) ==
    svg_template_format(sz, p[1][1], p[1][2], p[2][1], p[2][2], p[3][1], p[3][2])

\* svg_content for each size of the list
Document == [s \in Range(sizes) |-> Render(s, FormatArgs(s))]

(***************************************************************************)
(* File names and guards                                                   *)
(***************************************************************************)
\* At2xGuard with a strict lower bound
At2xGuard_strict(sz) == sz > 32 /\ sz <= 512

NominalGuard(sz) == sz <= 512
At2xGuard(sz)    == sz >= 32 /\ sz <= 512

\* At2xName named for the size itself
At2xName_nohalf(sz) == "icon_" \o IntStr(sz) \o "x" \o IntStr(sz) \o "@2x.svg"

\* At2xName without the @2x suffix
At2xName_nosuffix(sz) ==
    "icon_" \o IntStr(sz \div 2) \o "x" \o IntStr(sz \div 2) \o ".svg"

NominalName(sz) == "icon_" \o IntStr(sz) \o "x" \o IntStr(sz) \o ".svg"
At2xName(sz) ==
    "icon_" \o IntStr(sz \div 2) \o "x" \o IntStr(sz \div 2) \o "@2x.svg"

(***************************************************************************)
(* The file system                                                         *)
(***************************************************************************)
NoFiles == [n \in {} |-> <<>>]

\* Overwrite with the file opened for appending
Overwrite_append(fs, path, content) ==
    [n \in (DOMAIN fs) \cup {path} |->
        IF n = path THEN (IF path \in DOMAIN fs THEN fs[path] ELSE <<>>) \o content
                    ELSE fs[n]]

\* open(path, 'w') followed by a complete f.write(content): the file is
\* created or replaced
Overwrite(fs, path, content) ==
    [n \in (DOMAIN fs) \cup {path} |-> IF n = path THEN content ELSE fs[n]]

\* the writes one run of the loop makes: path and content
WritePlan ==
    {[path |-> NominalName(sizes[j]), content |-> Document[sizes[j]]] :
        j \in {j \in 1..Len(sizes) : NominalGuard(sizes[j])}}
    \cup
    {[path |-> At2xName(sizes[j]), content |-> Document[sizes[j]]] :
        j \in {j \in 1..Len(sizes) : At2xGuard(sizes[j])}}

\* what may lie in the directory before the first run
PreNames == {"icon_16x16.svg", "icon_512x512@2x.svg", "README.txt"}
Stale == <<"stale">>

Init ==
    /\ pc = "mkdir"
    /\ run = 1
    /\ idx = 0
    /\ size = 0
    /\ polygon = <<>>
    /\ svg_content = <<>>
    /\ dirExists \in BOOLEAN
    /\ \E P \in SUBSET PreNames :
          /\ dirExists \/ P = {}
          /\ files = [n \in P |-> Stale]
    /\ attempted = <<>>
    /\ written = <<>>
    /\ printed = <<>>
    /\ startDir = dirExists
    /\ startFiles = files
    /\ prevDone = FALSE

(***************************************************************************)
(* The script                                                              *)
(***************************************************************************)
loopVars == <<idx, size, polygon, svg_content>>
histVars == <<run, startDir, startFiles, prevDone>>

\* Abort with the exception swallowed: the script goes on
Abort_swallow ==
    /\ pc' = (IF pc = "nominal" THEN "at2x" ELSE "for")
    /\ UNCHANGED <<idx, size, polygon, svg_content, run, startDir, startFiles,
                   prevDone, written, printed>>

\* an exception leaves the script: nothing after it runs
Abort ==
    /\ pc' = "aborted"
    /\ UNCHANGED <<loopVars, histVars, written, printed>>

\* MkdirOk with the directory left as it was
MkdirOk_noop ==
    /\ pc = "mkdir"
    /\ pc' = "for"
    /\ UNCHANGED <<idx, size, polygon, svg_content, run, startDir, startFiles,
                   prevDone, dirExists, files, attempted, written, printed>>

\* iconset_dir.mkdir(parents=True, exist_ok=True)
MkdirOk ==
    /\ pc = "mkdir"
    /\ dirExists' = TRUE
    /\ pc' = "for"
    /\ UNCHANGED <<loopVars, histVars, files, attempted, written, printed>>

MkdirFail ==
    /\ pc = "mkdir"
    /\ Abort
    /\ UNCHANGED <<dirExists, files, attempted>>

\* for size in sizes: the next size, its geometry and its document
ForNext ==
    /\ pc = "for"
    /\ idx < Len(sizes)
    /\ idx' = idx + 1
    /\ size' = sizes[idx + 1]
    /\ polygon' = FormatArgs(size')
    /\ svg_content' = Document[size']
    /\ pc' = "nominal"
    /\ UNCHANGED <<histVars, dirExists, files, attempted, written, printed>>

ForExit ==
    /\ pc = "for"
    /\ idx = Len(sizes)
    /\ pc' = "print1"
    /\ UNCHANGED <<loopVars, histVars, dirExists, files, attempted, written,
                   printed>>

\* with open(svg_path, 'w') as f: f.write(svg_content), all of it done
WriteOk(path, next) ==
    /\ dirExists
    /\ attempted' = Append(attempted, path)
    /\ files' = Overwrite(files, path, svg_content)
    /\ written' = Append(written, [path |-> path, size |-> size])
    /\ pc' = next
    /\ UNCHANGED <<loopVars, histVars, dirExists, printed>>

\* open() raises: nothing is created or truncated
OpenFail(path) ==
    /\ attempted' = Append(attempted, path)
    /\ Abort
    /\ UNCHANGED <<dirExists, files>>

\* what a write that raises leaves in the file open() has created or
\* truncated: nothing, or the document cut short (held as the document
\* without its last line)
Truncated(content) == {<<>>, SubSeq(content, 1, Len(content) - 1)}

\* open() has created or truncated the file and the write raises
WriteFail(path) ==
    /\ dirExists
    /\ attempted' = Append(attempted, path)
    /\ \E c \in Truncated(svg_content) : files' = Overwrite(files, path, c)
    /\ Abort
    /\ UNCHANGED dirExists

Skip(next) ==
    /\ pc' = next
    /\ UNCHANGED <<loopVars, histVars, dirExists, files, attempted, written,
                   printed>>

NominalWrite     == pc = "nominal" /\ NominalGuard(size)
                    /\ WriteOk(NominalName(size), "at2x")
NominalOpenFail  == pc = "nominal" /\ NominalGuard(size)
                    /\ OpenFail(NominalName(size))
NominalWriteFail == pc = "nominal" /\ NominalGuard(size)
                    /\ WriteFail(NominalName(size))
NominalSkip      == pc = "nominal" /\ ~NominalGuard(size) /\ Skip("at2x")

At2xWrite     == pc = "at2x" /\ At2xGuard(size) /\ WriteOk(At2xName(size), "for")
At2xOpenFail  == pc = "at2x" /\ At2xGuard(size) /\ OpenFail(At2xName(size))
At2xWriteFail == pc = "at2x" /\ At2xGuard(size) /\ WriteFail(At2xName(size))
At2xSkip      == pc = "at2x" /\ ~At2xGuard(size) /\ Skip("for")

CreatedMessage == "SVG icons created in Resources/AppIcon.iconset"
NoteMessage ==
    "Note: You'll need to convert these to PNG manually using a tool like Inkscape or ImageMagick"

Print1 ==
    /\ pc = "print1"
    /\ printed' = Append(printed, CreatedMessage)
    /\ pc' = "print2"
    /\ UNCHANGED <<loopVars, histVars, dirExists, files, attempted, written>>

Print2 ==
    /\ pc = "print2"
    /\ printed' = Append(printed, NoteMessage)
    /\ pc' = "done"
    /\ UNCHANGED <<loopVars, histVars, dirExists, files, attempted, written>>

\* the script is run again, on the directory the last run left
Invoke ==
    /\ pc \in {"done", "aborted"}
    /\ run < MaxRuns
    /\ run' = run + 1
    /\ pc' = "mkdir"
    /\ idx' = 0
    /\ size' = 0
    /\ polygon' = <<>>
    /\ svg_content' = <<>>
    /\ attempted' = <<>>
    /\ written' = <<>>
    /\ printed' = <<>>
    /\ startDir' = dirExists
    /\ startFiles' = files
    /\ prevDone' = (pc = "done")
    /\ UNCHANGED <<dirExists, files>>

\* a step of the running script
RunStep ==
    \/ MkdirOk \/ MkdirFail
    \/ ForNext \/ ForExit
    \/ NominalWrite \/ NominalOpenFail \/ NominalWriteFail \/ NominalSkip
    \/ At2xWrite \/ At2xOpenFail \/ At2xWriteFail \/ At2xSkip
    \/ Print1 \/ Print2

Next == RunStep \/ Invoke

Spec == Init /\ [][Next]_vars

(***************************************************************************)
(* What the specification says, written without the model's text and name  *)
(* operators: decimal numerals and file names are spelled out.             *)
(***************************************************************************)
Dec == (8 :> "8" @@ 16 :> "16" @@ 32 :> "32" @@ 64 :> "64" @@ 128 :> "128"
        @@ 256 :> "256" @@ 512 :> "512" @@ 1024 :> "1024")

ListedSizes == {16, 32, 64, 128, 256, 512, 1024}

SpecNominal == [S \in DOMAIN Dec |-> "icon_" \o Dec[S] \o "x" \o Dec[S] \o ".svg"]
SpecAt2x == [N \in DOMAIN Dec |-> "icon_" \o Dec[N] \o "x" \o Dec[N] \o "@2x.svg"]

\* the <svg> line of a document of width w and height h
SvgLineOf(w, h) ==
    "<svg width=\"" \o Dec[w] \o "\" height=\"" \o Dec[h] \o "\" viewBox=\"0 0 "
    \o Dec[w] \o " " \o Dec[h] \o "\" xmlns=\"http://www.w3.org/2000/svg\">"

SvgLine == [w \in DOMAIN Dec |-> SvgLineOf(w, w)]

\* the <polygon> line with the given points attribute
PolygonLine(points) == "  <polygon points=\"" \o points \o "\" fill=\"black\"/>"

WrittenPaths == [k \in 1..Len(written) |-> written[k].path]

\* the writes of a run, in order
ExpectedOrder ==
    << "icon_16x16.svg",
       "icon_32x32.svg",   "icon_16x16@2x.svg",
       "icon_64x64.svg",   "icon_32x32@2x.svg",
       "icon_128x128.svg", "icon_64x64@2x.svg",
       "icon_256x256.svg", "icon_128x128@2x.svg",
       "icon_512x512.svg", "icon_256x256@2x.svg" >>

ExpectedFiles == {ExpectedOrder[k] : k \in 1..Len(ExpectedOrder)}

\* C1: after a successful run from an empty target directory, a nominal
\* file icon_SxS.svg exists iff S <= 512, and an @2x file icon_NxN@2x.svg
\* exists iff the list holds a size S with S/2 = N and 32 <= S <= 512.
C1_FilePresenceLaw ==
    (pc = "done" /\ startFiles = NoFiles) =>
        /\ \A S \in ListedSizes :
              (SpecNominal[S] \in DOMAIN files) <=> (S <= 512)
        /\ \A N \in DOMAIN Dec :
              (SpecAt2x[N] \in DOMAIN files) <=>
                  (\E S \in ListedSizes : S = 2 * N /\ 32 <= S /\ S <= 512)

C1_Witness == pc = "done" /\ startFiles = NoFiles /\ Len(written) > 0

\* C2: after a successful run, size 1024 has produced no file
\* icon_1024x1024.svg, and icon_512x512@2x.svg has been produced and holds
\* the document rendered at size 1024.
C2_Size1024Scenario ==
    pc = "done" =>
        /\ \A k \in 1..Len(written) : written[k].path # "icon_1024x1024.svg"
        /\ \E k \in 1..Len(written) :
              /\ written[k].path = "icon_512x512@2x.svg"
              /\ written[k].size = 1024
        /\ "icon_512x512@2x.svg" \in DOMAIN files
        /\ Len(files["icon_512x512@2x.svg"]) = 4
        /\ files["icon_512x512@2x.svg"][2] = SvgLine[1024]

\* C3: every file the run has written holds a square document whose width
\* and height are the size of the iteration that wrote it: a nominal file
\* icon_SxS.svg holds the document of size S, an @2x file icon_NxN@2x.svg
\* holds the document of size 2N, the content of the nominal file of size
\* 2N, and never the document of size N.
C3_WrittenFilesSquare ==
    \A k \in 1..Len(written) :
        LET w == written[k] IN
        /\ w.path \in DOMAIN files
        /\ w.size \in ListedSizes
        /\ Len(files[w.path]) = 4
        /\ files[w.path][2] = SvgLine[w.size]
        /\ \A S \in ListedSizes : w.path = SpecNominal[S] => w.size = S
        /\ \A N \in DOMAIN Dec :
              w.path = SpecAt2x[N] =>
                  /\ w.size = 2 * N
                  /\ files[w.path][2] # SvgLine[N]
                  /\ NominalName(2 * N) \in DOMAIN files
                  /\ files[NominalName(2 * N)] = files[w.path]

C3_Witness ==
    \E k \in 1..Len(written) :
        written[k].path = "icon_256x256@2x.svg" /\ written[k].size = 512

\* C4: the polygon rendered for a size S has exactly three vertices, in
\* the order bottom (0.5 S, 0.75 S), top-left (0.2 S, 0.25 S), top-right
\* (0.8 S, 0.25 S); so top_y < bottom_y and left_x < center_x < right_x.
\* Coordinates are compared after scaling by 20 (they are held in
\* hundredths, so 20 * held = 100 * scaled).
C4_TriangleVertices ==
    pc \in {"nominal", "at2x"} =>
        /\ size \in ListedSizes
        /\ Len(polygon) = 3
        /\ 20 * polygon[1][1] = 100 * (10 * size)
        /\ 20 * polygon[1][2] = 100 * (15 * size)
        /\ 20 * polygon[2][1] = 100 * (4 * size)
        /\ 20 * polygon[2][2] = 100 * (5 * size)
        /\ 20 * polygon[3][1] = 100 * (16 * size)
        /\ 20 * polygon[3][2] = 100 * (5 * size)
        /\ polygon[2][2] < polygon[1][2]
        /\ polygon[2][1] < polygon[1][1]
        /\ polygon[1][1] < polygon[3][1]
        /\ svg_content = Render(size, polygon)
        /\ Len(svg_content) = 4

C4_Witness == pc = "at2x" /\ size = 1024 /\ Len(polygon) = 3

\* C5 as stated: for S = 32 the run writes icon_32x32.svg with the points
\* attribute "16,24 6.4,8 25.6,8", and icon_16x16@2x.svg with the same
\* points and width = height = 32.
C5_Size32AsStated ==
    \A k \in 1..Len(written) :
        written[k].path \in {"icon_32x32.svg", "icon_16x16@2x.svg"} =>
            /\ files[written[k].path][2] = SvgLine[32]
            /\ files[written[k].path][3] = PolygonLine("16,24 6.4,8 25.6,8")

\* C5 amended: for S = 32 the run writes icon_32x32.svg whose points
\* attribute is exactly "16.0,24.0 6.4,8.0 25.6,8.0" (whole-number
\* coordinates keep a ".0"), and icon_16x16@2x.svg with the same points
\* and width = height = 32.
C5_Size32Scenario ==
    /\ (pc = "done" => "icon_32x32.svg" \in Range(WrittenPaths)
                       /\ "icon_16x16@2x.svg" \in Range(WrittenPaths))
    /\ \A k \in 1..Len(written) :
          written[k].path \in {"icon_32x32.svg", "icon_16x16@2x.svg"} =>
              /\ written[k].size = 32
              /\ Len(files[written[k].path]) = 4
              /\ files[written[k].path][2] = SvgLine[32]
              /\ files[written[k].path][3] =
                     PolygonLine("16.0,24.0 6.4,8.0 25.6,8.0")

C5_Witness ==
    \E k \in 1..Len(written) : written[k].path = "icon_16x16@2x.svg"

\* C6: generation is idempotent: a successful run that follows a
\* successful run leaves the directory as it found it, at every step: it
\* overwrites files with identical content and adds or removes nothing.
C6_Idempotent ==
    (prevDone /\ pc # "aborted") => (files = startFiles /\ dirExists = startDir)

C6_Witness == prevDone /\ pc = "done" /\ Len(written) = Len(ExpectedOrder)

\* C7: when the directory does not exist before a run, it is created
\* before the first write is attempted, no write happens while it is
\* absent, and after a successful run it holds exactly the files the
\* naming rules dictate.
C7_DirectoryState ==
    /\ attempted # <<>> => dirExists
    /\ ~dirExists => files = NoFiles
    /\ (pc = "done" /\ ~startDir) => DOMAIN files = ExpectedFiles

C7_DirectoryFirst ==
    /\ []C7_DirectoryState
    /\ [][(files' # files \/ (attempted' # attempted /\ attempted' # <<>>))
              => (dirExists /\ dirExists')]_vars

C7_Witness == pc = "done" /\ ~startDir /\ run = 1

\* C8: a failure of the directory creation or of a write aborts the run
\* there: no later write is attempted, no remaining size is processed and
\* no completion message is printed; the two messages are printed iff the
\* directory creation and every write of the run succeeded.
C8_AbortsOnFailure ==
    /\ pc = "aborted" => printed = <<>>
    /\ pc = "aborted" =>
          \/ attempted = WrittenPaths
          \/ /\ Len(attempted) = Len(written) + 1
             /\ SubSeq(attempted, 1, Len(written)) = WrittenPaths
    /\ pc = "aborted" => ~ENABLED RunStep
    /\ attempted # WrittenPaths => pc = "aborted"
    /\ printed # <<>> =>
          /\ pc \in {"print2", "done"}
          /\ dirExists
          /\ attempted = WrittenPaths
          /\ WrittenPaths = ExpectedOrder
    /\ pc = "done" <=> printed = <<CreatedMessage, NoteMessage>>

C8_Witness == pc = "aborted" /\ Len(written) = 4 /\ Len(attempted) = 5

\* C9: within a run no two writes target the same path, so the final
\* content of the directory is the same for every order of the writes:
\* any two writes of the run commute, and the directory a successful run
\* leaves is the one it found overlaid with the run's writes.
C9_NoPathCollision ==
    /\ \A j, k \in 1..Len(attempted) : j # k => attempted[j] # attempted[k]
    /\ pc = "mkdir" =>
          /\ \A a, b \in WritePlan : a.path = b.path => a = b
          /\ \A S, T \in ListedSizes : NominalName(S) # At2xName(T)
          /\ \A a, b \in WritePlan :
                Overwrite(Overwrite(files, a.path, a.content), b.path, b.content)
                = Overwrite(Overwrite(files, b.path, b.content), a.path, a.content)
    /\ pc = "done" =>
          files = [n \in (DOMAIN startFiles) \cup {a.path : a \in WritePlan} |->
                      IF \E a \in WritePlan : a.path = n
                      THEN (CHOOSE a \in WritePlan : a.path = n).content
                      ELSE startFiles[n]]

C9_Witness == pc = "done" /\ Len(attempted) = Len(ExpectedOrder)

\* C10: writes happen in one fixed order, sizes in list order and the
\* nominal file before the @2x file; in every state, the state an aborted
\* run leaves included, the files written so far are a prefix of that
\* order and each still holds the document written to it.
C10_WritesInFixedOrder ==
    /\ Len(written) <= Len(ExpectedOrder)
    /\ WrittenPaths = SubSeq(ExpectedOrder, 1, Len(written))
    /\ \A k \in 1..Len(written) :
          /\ written[k].path \in DOMAIN files
          /\ files[written[k].path]
                 = Document[written[k].size]

C10_Witness ==
    /\ pc = "aborted"
    /\ Len(written) = 5
    /\ Len(attempted) = 6
    /\ attempted[6] = "icon_128x128.svg"
    /\ "icon_128x128.svg" \in DOMAIN files
    /\ files["icon_128x128.svg"] = <<>>

====
